---- MODULE Spec2Model ----
(***************************************************************************)
(* The webhooks router of backend/app/api/routes/webhooks.py: five route   *)
(* handlers behind the CurrentUser and SessionDep dependencies.            *)
(*                                                                         *)
(* The state is the store behind the session and the log of the requests   *)
(* answered so far, each with its response.  Callers send requests in any  *)
(* order; a handler runs from its first statement to its last without      *)
(* reading or writing anything shared, so a request is one step.           *)
(***************************************************************************)
EXTENDS Integers, Sequences, FiniteSets

VARIABLES db, log

vars == <<db, log>>

\* ---------------------------------------------------------------- bounds
MaxRequests == 2
NumRandom == 2

\* ------------------------------------------------------------- constants
HTTP_200 == 200
HTTP_404 == 404
HTTP_401 == 401
HTTP_500 == 500

\* ------------------------------------------------------------ uuid module
\* A 128-bit value is written as its 32 hexadecimal digits, most significant
\* first.
HexDigits == <<"0", "1", "2", "3", "4", "5", "6", "7",
               "8", "9", "a", "b", "c", "d", "e", "f">>

\* The samples of os.urandom(16) the model draws from.
RandomBytes(seed) == [j \in 1..32 |-> (seed * (j + 2) + j * j + seed * seed) % 16]

RandomPool == {RandomBytes(seed) : seed \in 1..NumRandom}

\* uuid.uuid4(): UUID(bytes=os.urandom(16), version=4) clears and sets the
\* variant bits (the top two bits of digit 17 become 10) and the version
\* (digit 13 becomes 4).
uuid4(rnd) ==
    [j \in 1..32 |-> IF j = 13 THEN 4
                     ELSE IF j = 17 THEN 8 + (rnd[j] % 4)
                     ELSE rnd[j]]

\* str(UUID): '%032x' of the value, cut 8-4-4-4-12 and joined by hyphens.
UUIDStr(u) ==
    LET hex == [j \in 1..32 |-> HexDigits[u[j] + 1]]
    IN  SubSeq(hex, 1, 8) \o <<"-">> \o SubSeq(hex, 9, 12) \o <<"-">> \o
        SubSeq(hex, 13, 16) \o <<"-">> \o SubSeq(hex, 17, 20) \o <<"-">> \o
        SubSeq(hex, 21, 32)

\* The identifiers a path parameter of type uuid.UUID is drawn from.
Ids == {uuid4(rnd) : rnd \in RandomPool}

NoId == <<>>

\* ------------------------------------------------------------------ users
\* The users CurrentUser can resolve to; a user's id is a UUID.
FirstUser == [id |-> uuid4(RandomBytes(5))]

SecondUser == [id |-> uuid4(RandomBytes(6))]

Users == {FirstUser, SecondUser}

NoUser == [id |-> <<>>]

\* ----------------------------------------------------------- session store
\* What the session behind SessionDep holds when the first request arrives:
\* nothing, or a row of the first user's for every identifier.
InitialStores == {{}, {[id |-> i, owner |-> FirstUser.id] : i \in Ids}}

\* --------------------------------------------------------------- responses
Return(body) == [kind |-> "return", status |-> HTTP_200, body |-> body]

HTTPException(status_code, detail) ==
    [kind |-> "raise", status |-> status_code, body |-> [detail |-> detail]]

\* ---------------------------------------------------------------- handlers
\* Each handler maps its arguments to the session it leaves and its result.

\* The identifiers of a set of rows, as a list.
RECURSIVE Listing(_)
Listing(rows) ==
    IF rows = {} THEN <<>>
    ELSE LET row == CHOOSE r \in rows : TRUE
         IN  <<UUIDStr(row.id)>> \o Listing(rows \ {row})

\* Variant: list selects the caller's rows from the session.
read_webhooks_select(session, current_user) ==
    [session |-> session,
     result |-> Return([webhooks |->
                    Listing({row \in session : row.owner = current_user.id})])]

read_webhooks(session, current_user) ==
    [session |-> session, result |-> Return([webhooks |-> <<>>])]

\* Variant: get-by-id answers with the row when the session holds one.
read_webhook_lookup(session, current_user, id) ==
    [session |-> session,
     result |-> IF \E row \in session : row.id = id
                THEN Return([id |-> UUIDStr(id),
                             created_by |-> UUIDStr(
                                 (CHOOSE row \in session : row.id = id).owner)])
                ELSE HTTPException(HTTP_404, "Webhook not found")]

read_webhook(session, current_user, id) ==
    [session |-> session, result |-> HTTPException(HTTP_404, "Webhook not found")]

\* Variant: the two fields of the body are swapped.
create_webhook_swapped(session, current_user, rnd) ==
    [session |-> session,
     result |-> Return([id |-> UUIDStr(current_user.id),
                        created_by |-> UUIDStr(uuid4(rnd))])]

\* Variant: create adds the new webhook to the session.
create_webhook_store(session, current_user, rnd) ==
    [session |-> session \cup {[id |-> uuid4(rnd), owner |-> current_user.id]},
     result |-> Return([id |-> UUIDStr(uuid4(rnd)),
                        created_by |-> UUIDStr(current_user.id)])]

create_webhook(session, current_user, rnd) ==
    [session |-> session,
     result |-> Return([id |-> UUIDStr(uuid4(rnd)),
                        created_by |-> UUIDStr(current_user.id)])]

\* Variant: update refuses another user's row with 403.
update_webhook_forbidden(session, current_user, id) ==
    [session |-> session,
     result |-> IF \E row \in session : row.id = id /\ row.owner # current_user.id
                THEN HTTPException(403, "Not enough permissions")
                ELSE HTTPException(HTTP_404, "Webhook not found")]

update_webhook(session, current_user, id) ==
    [session |-> session, result |-> HTTPException(HTTP_404, "Webhook not found")]

\* Variant: delete returns a Message instead of raising.
delete_webhook_message(session, current_user, id) ==
    [session |-> session,
     result |-> Return([message |-> "Webhook deleted successfully"])]

\* Variant: delete removes the row when the session holds one.
delete_webhook_remove(session, current_user, id) ==
    IF \E row \in session : row.id = id
    THEN [session |-> {row \in session : row.id # id},
          result |-> Return([message |-> "Webhook deleted successfully"])]
    ELSE [session |-> session,
          result |-> HTTPException(HTTP_404, "Webhook not found")]

delete_webhook(session, current_user, id) ==
    [session |-> session, result |-> HTTPException(HTTP_404, "Webhook not found")]

\* ------------------------------------------------------------------ routes
Routes == {"read_webhooks", "read_webhook", "create_webhook",
           "update_webhook", "delete_webhook"}

IdRoutes == {"read_webhook", "update_webhook", "delete_webhook"}

\* Variant: list is declared without the current user.
DependenciesOpen(route) ==
    IF route = "read_webhooks" THEN {"session"} ELSE {"session", "current_user"}

\* The dependencies each handler's signature declares.
Dependencies(route) == {"session", "current_user"}

\* A request: the route, the user the caller's credentials resolve to (NoUser
\* when they resolve to none), whether a session can be opened, and the path
\* parameter.
Callers ==
    {[user |-> u, session |-> TRUE] : u \in Users \cup {NoUser}}
    \cup {[user |-> FirstUser, session |-> FALSE]}

\* The path parameters of a route: an identifier for "/{id}", none for "/".
PathIds(route) == IF route \in IdRoutes THEN Ids ELSE {NoId}

Requests ==
    UNION {{[route |-> r, user |-> c.user, session |-> c.session, id |-> i] :
                c \in Callers, i \in PathIds(r)} : r \in Routes}

Resolves(dep, req) ==
    IF dep = "current_user" THEN req.user # NoUser ELSE req.session

Resolved(req) == \A dep \in Dependencies(req.route) : Resolves(dep, req)

\* What the caller gets when a dependency fails: the handler's response it is
\* not.
Rejection(req) ==
    [kind |-> "rejected",
     status |-> IF req.session THEN HTTP_401 ELSE HTTP_500,
     body |-> [detail |-> "Dependency failed"]]

\* The router: resolve the route's dependencies, then call its handler.
Dispatch(session, req, rnd) ==
    IF ~Resolved(req) THEN [session |-> session, result |-> Rejection(req)]
    ELSE CASE req.route = "read_webhooks" -> read_webhooks(session, req.user)
           [] req.route = "read_webhook" -> read_webhook(session, req.user, req.id)
           [] req.route = "create_webhook" -> create_webhook(session, req.user, rnd)
           [] req.route = "update_webhook" -> update_webhook(session, req.user, req.id)
           [] req.route = "delete_webhook" -> delete_webhook(session, req.user, req.id)

\* ----------------------------------------------------------------- actions
Init ==
    /\ db \in InitialStores
    /\ log = <<>>

\* The request is answered with the handler's result and the store is the
\* session the handler leaves.
Complete(req, res) ==
    /\ Len(log) < MaxRequests
    /\ db' = res.session
    /\ log' = Append(log, [req |-> req, resp |-> res.result])

\* A dependency of the route does not resolve: the handler is not called.
Reject(req) ==
    /\ ~Resolved(req)
    /\ Complete(req, [session |-> db, result |-> Rejection(req)])

ReadWebhooks(req) ==
    /\ req.route = "read_webhooks"
    /\ Resolved(req)
    /\ Complete(req, read_webhooks(db, req.user))

ReadWebhook(req) ==
    /\ req.route = "read_webhook"
    /\ Resolved(req)
    /\ Complete(req, read_webhook(db, req.user, req.id))

CreateWebhook(req) ==
    \E rnd \in RandomPool :
        /\ req.route = "create_webhook"
        /\ Resolved(req)
        /\ Complete(req, create_webhook(db, req.user, rnd))

UpdateWebhook(req) ==
    /\ req.route = "update_webhook"
    /\ Resolved(req)
    /\ Complete(req, update_webhook(db, req.user, req.id))

DeleteWebhook(req) ==
    /\ req.route = "delete_webhook"
    /\ Resolved(req)
    /\ Complete(req, delete_webhook(db, req.user, req.id))

Next ==
    \/ \E req \in Requests : Reject(req)
    \/ \E req \in Requests : ReadWebhooks(req)
    \/ \E req \in Requests : ReadWebhook(req)
    \/ \E req \in Requests : CreateWebhook(req)
    \/ \E req \in Requests : UpdateWebhook(req)
    \/ \E req \in Requests : DeleteWebhook(req)

Spec == Init /\ [][Next]_vars

\* ------------------------------------------------------------------ claims
\* The caller is authenticated: the credentials resolve to one of the users
\* over a session that could be opened.
Authenticated(req) == req.user \in Users /\ req.session

NotFound == [kind |-> "raise", status |-> 404, body |-> [detail |-> "Webhook not found"]]

Positions == DOMAIN log

\* Entry i answers a create request of user u with 200 and the identifier s.
Issued(i, u, s) ==
    /\ log[i].req.route = "create_webhook"
    /\ log[i].req.user = u
    /\ Authenticated(log[i].req)
    /\ log[i].resp.status = 200
    /\ log[i].resp.body.id = s

HexChars == {HexDigits[n] : n \in 1..16}

\* The canonical text of a UUID: 36 characters, hyphens at 9, 14, 19 and 24,
\* hexadecimal digits elsewhere.
IsCanonicalUUID(s) ==
    /\ Len(s) = 36
    /\ \A j \in 1..36 :
          IF j \in {9, 14, 19, 24} THEN s[j] = "-"
          ELSE s[j] \in HexChars

\* C1: every answer to GET /webhooks/ of an authenticated caller is 200 with
\* the body {"webhooks": []}, whatever the store holds and whatever was
\* answered before.
C1_ListAlwaysEmpty ==
    \A i \in Positions :
        (log[i].req.route = "read_webhooks" /\ Authenticated(log[i].req))
            => /\ log[i].resp.kind = "return"
               /\ log[i].resp.status = 200
               /\ log[i].resp.body = [webhooks |-> <<>>]

\* A list answered after a successful create, over a store that holds a row.
C1_Witness ==
    /\ db # {}
    /\ Len(log) = 2
    /\ log[2].req.route = "read_webhooks"
    /\ Authenticated(log[2].req)
    /\ log[1].req.route = "create_webhook"
    /\ Issued(1, log[2].req.user, log[1].resp.body.id)

\* C2: every answer to GET /webhooks/{id} of an authenticated caller is 404
\* with detail "Webhook not found", also for an id an earlier create returned
\* to that caller.
C2_GetAlwaysNotFound ==
    \A i \in Positions :
        (log[i].req.route = "read_webhook" /\ Authenticated(log[i].req))
            => log[i].resp = NotFound

\* A get-by-id of the identifier the same caller's create has just returned.
C2_Witness ==
    /\ Len(log) = 2
    /\ log[2].req.route = "read_webhook"
    /\ Authenticated(log[2].req)
    /\ Issued(1, log[2].req.user, UUIDStr(log[2].req.id))

\* C3: every answer to POST /webhooks/ of an authenticated caller u is 200
\* with exactly the fields id and created_by, id a canonical UUID text and
\* created_by the text of u's id and of no other user's.
C3_CreateEchoesCaller ==
    \A i \in Positions :
        (log[i].req.route = "create_webhook" /\ Authenticated(log[i].req))
            => /\ log[i].resp.kind = "return"
               /\ log[i].resp.status = 200
               /\ DOMAIN log[i].resp.body = {"id", "created_by"}
               /\ IsCanonicalUUID(log[i].resp.body.id)
               /\ IsCanonicalUUID(log[i].resp.body.created_by)
               /\ log[i].resp.body.created_by = UUIDStr(log[i].req.user.id)
               /\ \A v \in Users \ {log[i].req.user} :
                      log[i].resp.body.created_by # UUIDStr(v.id)

\* Two creates by different users, the second after the first.
C3_Witness ==
    /\ Len(log) = 2
    /\ \A i \in 1..2 : log[i].req.route = "create_webhook" /\ Authenticated(log[i].req)
    /\ log[1].req.user # log[2].req.user
    /\ log[2].resp.body.created_by = UUIDStr(log[2].req.user.id)

\* C4: every answer to PUT /webhooks/{id} and to DELETE /webhooks/{id} of an
\* authenticated caller is 404 with detail "Webhook not found"; delete never
\* returns a Message.
C4_UpdateDeleteNotFound ==
    \A i \in Positions :
        (log[i].req.route \in {"update_webhook", "delete_webhook"}
            /\ Authenticated(log[i].req))
            => /\ log[i].resp = NotFound
               /\ log[i].resp.kind # "return"
               /\ "message" \notin DOMAIN log[i].resp.body

\* An update and then a delete, by the owner, of an identifier the store
\* holds a row for.
C4_Witness ==
    /\ Len(log) = 2
    /\ log[1].req.route = "update_webhook"
    /\ log[2].req.route = "delete_webhook"
    /\ \A i \in 1..2 :
          /\ Authenticated(log[i].req)
          /\ [id |-> log[i].req.id, owner |-> log[i].req.user.id] \in db

\* C5: no step changes the store, on the success path, the 404 path and the
\* rejected path alike; so a request sent twice leaves the store a request
\* sent once leaves.
C5_NoSideEffect == [][db' = db]_vars

\* The same create request answered twice, over a store that holds a row.
C5_Witness ==
    /\ db # {}
    /\ Len(log) = 2
    /\ log[1].req = log[2].req
    /\ log[1].req.route = "create_webhook"
    /\ log[1].resp.status = 200
    /\ log[2].resp.status = 200

\* C6: a request whose CurrentUser or SessionDep does not resolve never gets a
\* handler's answer: neither 200 nor the 404 "Webhook not found".
C6_DependenciesGuardHandlers ==
    \A i \in Positions :
        ~Authenticated(log[i].req)
            => /\ log[i].resp.kind = "rejected"
               /\ log[i].resp.status # 200
               /\ log[i].resp # NotFound
               /\ log[i].resp.body.detail # "Webhook not found"

\* A request without a user and a request without a session, both answered.
C6_Witness ==
    /\ Len(log) = 2
    /\ log[1].req.user = NoUser
    /\ log[1].req.route = "read_webhooks"
    /\ ~log[2].req.session
    /\ log[2].req.route = "delete_webhook"

\* C7, as claimed: every answer of a route that is not 200 is the 404
\* "Webhook not found", and whether a request fails is decided by the route
\* alone: get-by-id, update and delete fail, list and create do not.
C7_AsClaimed ==
    \A i \in Positions :
        /\ (log[i].resp.status # 200 => log[i].resp = NotFound)
        /\ (log[i].resp.status # 200 <=> log[i].req.route \in IdRoutes)

\* C7, amended: of the requests that reach their handler (both dependencies
\* resolve), every answer that is not 200 is the 404 "Webhook not found", and
\* whether such a request fails is decided by the route alone: get-by-id,
\* update and delete fail, list and create do not.
C7_OneErrorKind ==
    \A i \in Positions :
        Authenticated(log[i].req)
            => /\ (log[i].resp.status # 200 => log[i].resp = NotFound)
               /\ (log[i].resp.status # 200 <=> log[i].req.route \in IdRoutes)

\* A failing answer and a succeeding answer to the same caller, the failing
\* one for an identifier the store holds a row for.
C7_Witness ==
    /\ Len(log) = 2
    /\ \A i \in 1..2 : Authenticated(log[i].req)
    /\ log[1].req.user = log[2].req.user
    /\ log[1].resp.status = 404
    /\ \E row \in db : row.id = log[1].req.id
    /\ log[2].resp.status = 200

\* C8: no step changes the answer any request would get: what a request is
\* answered depends on the request (and, for create, the random bytes drawn)
\* and not on the requests answered before it, so every interleaving of the
\* same requests gives each of them the same answer.  (A step that leaves the
\* store alone changes no answer; the other steps are compared answer by
\* answer.)  The answer a step logs is the one the router gives in the state
\* the step starts from.
C8_OrderInsensitive ==
    [][/\ \/ db' = db
          \/ \A req \in Requests : \A rnd \in RandomPool :
                 Dispatch(db', req, rnd).result = Dispatch(db, req, rnd).result
       /\ Len(log') = Len(log) + 1
            => \E rnd \in RandomPool :
                   log'[Len(log')].resp
                       = Dispatch(db, log'[Len(log')].req, rnd).result]_vars

\* Two different callers' requests answered one after the other, a create
\* first.
C8_Witness ==
    /\ Len(log) = 2
    /\ log[1].req.route = "create_webhook"
    /\ log[2].req.route = "delete_webhook"
    /\ \A i \in 1..2 : Authenticated(log[i].req)
    /\ log[1].req.user # log[2].req.user
    /\ \E row \in db : row.id = log[2].req.id

\* C9: in every state, the authenticated requests to a route other than
\* create all get one and the same answer, whoever sends them and whatever
\* the path parameter is, and it is the answer every such request in the log
\* got.
C9_CallerDoesNotFlow ==
    \A route \in Routes \ {"create_webhook"} :
        LET answers ==
                {Dispatch(db, [route |-> route, user |-> u, session |-> TRUE, id |-> i],
                          RandomBytes(1)).result : u \in Users, i \in PathIds(route)}
        IN  /\ Cardinality(answers) = 1
            /\ \A n \in Positions :
                   (log[n].req.route = route /\ Authenticated(log[n].req))
                       => log[n].resp \in answers

\* The owner of a stored row has asked for it and another user has asked for
\* another identifier.
C9_Witness ==
    /\ Len(log) = 2
    /\ log[1].req.route = "read_webhook"
    /\ log[2].req.route = "read_webhook"
    /\ \A i \in 1..2 : Authenticated(log[i].req)
    /\ log[1].req.user # log[2].req.user
    /\ log[1].req.id # log[2].req.id
    /\ [id |-> log[1].req.id, owner |-> log[1].req.user.id] \in db
    /\ log[1].resp = log[2].resp

\* C10: once create has answered 200 with identifier x to caller u, every
\* later list answered to u omits x and every later get, update or delete of
\* x by u is answered 404.
C10_CreatedNeverObservable ==
    \A i \in Positions : \A j \in Positions :
        (/\ i < j
         /\ Issued(i, log[j].req.user, log[i].resp.body.id)
         /\ Authenticated(log[j].req))
            => /\ log[j].req.route = "read_webhooks"
                    => \A n \in DOMAIN log[j].resp.body.webhooks :
                           log[j].resp.body.webhooks[n] # log[i].resp.body.id
               /\ (log[j].req.route \in IdRoutes
                    /\ UUIDStr(log[j].req.id) = log[i].resp.body.id)
                    => log[j].resp.status = 404

\* A delete of the identifier the same caller's create has just returned.
C10_Witness ==
    /\ Len(log) = 2
    /\ log[2].req.route = "delete_webhook"
    /\ Authenticated(log[2].req)
    /\ Issued(1, log[2].req.user, UUIDStr(log[2].req.id))
    /\ log[2].resp.status = 404

====
